---- MODULE Spec2Model ----
(***************************************************************************)
(* Murmur: the freehand drawing editor.                                    *)
(*   src/components/DrawingCanvas.tsx  gesture capture, point filter,      *)
(*                                     draw commit, erase commit           *)
(*   src/components/DrawingModal.tsx   working Drawing, tool selection,    *)
(*                                     stroke cap, Undo, Clear (the first  *)
(*                                     DrawingModal of the file, lines     *)
(*                                     1-345; the file carries a second,   *)
(*                                     older one after it)                 *)
(*   src/unnamed/part_007              notes screen: opening the editor    *)
(*                                     for a note, Done, Cancel            *)
(* Every handler is one action; the action includes the re-render React    *)
(* performs when the handler returns and the canvas' useEffect that copies *)
(* the modal's stroke list (prop initialStrokes) into the canvas.          *)
(*                                                                         *)
(* Coordinates are integers counting 1/Scale of a canvas unit, so that     *)
(* samples closer than one canvas unit exist. Distances are compared by    *)
(* their squares, which is exact.                                          *)
(*                                                                         *)
(* The canvas' eraserPosition is left out: the handlers only write it and  *)
(* only renderEraserCursor reads it.                                       *)
(***************************************************************************)
EXTENDS Integers, Sequences, FiniteSets, TLC

VARIABLES
    currentStrokes,       \* DrawingModal: useState currentStrokes
    selectedTool,         \* DrawingModal: useState selectedTool
    selectedColor,        \* DrawingModal: useState selectedColor
    selectedStrokeWidth,  \* DrawingModal: useState selectedStrokeWidth
    strokes,              \* DrawingCanvas: useState strokes
    currentStroke,        \* DrawingCanvas: useState currentStroke (the buffer)
    isDrawing,            \* DrawingCanvas: useState isDrawing
    touching,             \* the responder holds a touch (grant seen, no release yet)
    nextId,               \* number of stroke ids minted so far
    notes,                \* storage: the persisted drawing of every note
    drawingNote,          \* notes screen: useState drawingNote (a note id, or NoNote)
    showDrawingModal,     \* notes screen: useState showDrawingModal
    effectPending,        \* DrawingCanvas: the effect on [initialStrokes] is due to run
    rendered,             \* DrawingCanvas: the state the latest render's handlers read
    inflight,             \* storage: the calls of updateNote that have not returned
    log,                  \* history: what the latest step did to the Drawing, if anything
    gest,                 \* history: the gesture in progress
    run                   \* history: commits-then-undos pattern since the empty start

vars == <<currentStrokes, selectedTool, selectedColor, selectedStrokeWidth,
          strokes, currentStroke, isDrawing, touching,
          nextId, notes, drawingNote, showDrawingModal,
          effectPending, rendered, inflight, log, gest, run>>

modalStyle == <<selectedTool, selectedColor, selectedStrokeWidth>>
canvasGesture == <<currentStroke, isDrawing, touching, gest>>
hostVars == <<notes, drawingNote, showDrawingModal>>

\* What React and the storage have scheduled. In the specifications in which a handler,
\* the re-render after it and the effects of that render are one step, and a call of
\* the storage is one step, nothing is ever scheduled and these keep their initial
\* values; SpecSync, SpecRace and SpecStorage take the steps apart.
scheduled == <<effectPending, rendered, inflight>>
NothingRendered == [isDrawing |-> FALSE, currentStroke |-> <<>>]

----------------------------------------------------------------------------
(* Bounds and input alphabets *)

Scale == 2              \* grid steps per canvas unit
MaxBuf == 3             \* points retained in one gesture
MaxCalls == 2             \* calls of the storage in flight at once
MaxStrokesMade == 2     \* draw commits in one session of Spec
CapCommits == 32        \* draw commits in one session of SpecCap

StrokeCap == 30         \* slice(-30)
InitialWidth == 3       \* useState(3)
PencilWidth == 2
MarkerWidth == 4
BrushWidth == 6
EraserWidth == 8
MoveThreshold == 1      \* Math.abs(...) > 1, canvas units
CanvasWidth == 400      \* Math.min(screenWidth, 400)
CanvasHeight == 600     \* Math.min(screenHeight * 0.75, 600)
PencilSmoothness == 20  \* smoothness 0.2, in hundredths
MarkerSmoothness == 90  \* 0.9
BrushSmoothness == 95   \* 0.95
DefaultSmoothness == 70 \* 0.7
SmoothnessLimit == 70   \* toolChars.smoothness > 0.7
FineThreshold == 1      \* threshold 0.2, in fifths of a canvas unit
CoarseThreshold == 5    \* threshold 1.0

Pt(x, y) == [x |-> x, y |-> y]
Origin == Pt(0, 0)
\* the point built from an event without coordinates, { x: undefined, y: undefined }
Missing == [undefined |-> TRUE]
Defined(p) == p # Missing
\* pointer positions offered to the handlers: the origin; Far, more than one canvas
\* unit from it; Close, less than one unit from it; Diagonal, one unit from the
\* origin along each axis, so at Euclidean distance above one unit
Far == Pt(Scale + 1, 0)
Close == Pt(Scale - 1, 0)
Diagonal == Pt(Scale, Scale)
\* Outside: left of the canvas and below it
Outside == Pt(-Scale, (CanvasHeight + 1) * Scale)
GrantSamples == {Origin, Far, Diagonal}
DrawSamples == {Origin, Outside}
DrawTools == {"pencil", "marker"}
MissingSamples == {Origin, Far, Missing}
\* points of the strokes handed to the renderer: at distance 0, below 1, exactly 1,
\* above 1 and exactly 10 canvas units from the origin
RenderSamples == {Origin, Close, Pt(Scale, 0), Far, Pt(10 * Scale, 0)}
MoveSamples == {Origin, Far, Close, Diagonal}
Tools == {"pencil", "marker", "brush", "eraser"}
ToolChoices == {"pencil", "eraser"}
ColorChoices == {"#ff3b30"}
SizeChoices == {2}
Notes == {"A", "B"}
NoNote == "null"
NoPos == [none |-> TRUE]
NoGesture ==
    [start |-> NoPos, kept |-> 0, superseded |-> FALSE, moved |-> FALSE, near |-> TRUE,
     erasing |-> FALSE]
NoLog == [op |-> "none", prev |-> "none", before |-> <<>>, had |-> <<>>, path |-> <<>>,
          width |-> 0, gest |-> NoGesture, sent |-> <<>>, note |-> NoNote]

----------------------------------------------------------------------------
(* Pure helpers *)

Abs(n) == IF n < 0 THEN -n ELSE n

\* squared Euclidean distance, in grid steps
Dist2(p, q) == (p.x - q.x) * (p.x - q.x) + (p.y - q.y) * (p.y - q.y)

\* (variant: any point other than the last one is different enough)
FarEnoughAny(last, newPoint) == last # newPoint

\* onPanResponderMove: is newPoint different enough from the last point (a
\* comparison with an undefined coordinate is a comparison with NaN, which is false)
FarEnough(last, newPoint) ==
    /\ Defined(last)
    /\ Defined(newPoint)
    /\ \/ Abs(last.x - newPoint.x) > MoveThreshold * Scale
       \/ Abs(last.y - newPoint.y) > MoveThreshold * Scale

\* (variant: pointer-down appends to the buffer it finds)
BeginBufferAppend(prev, p) == Append(prev, p)

\* setCurrentStroke([{ x: locationX, y: locationY }]) in onPanResponderGrant
BeginBuffer(prev, p) == <<p>>

\* the functional update of setCurrentStroke in onPanResponderMove
Extend(prev, newPoint) ==
    IF Len(prev) = 0 \/ FarEnough(prev[Len(prev)], newPoint)
    THEN Append(prev, newPoint)
    ELSE prev

\* (variant: distance < eraserRadius)
WithinRadiusStrict(strokePoint, eraserPoint, width) ==
    4 * Dist2(strokePoint, eraserPoint) < width * width * Scale * Scale

\* distance <= eraserRadius, eraserRadius = strokeWidth / 2 (canvas units)
WithinRadius(strokePoint, eraserPoint, width) ==
    4 * Dist2(strokePoint, eraserPoint) <= width * width * Scale * Scale

\* currentStroke.some(eraserPoint => distance <= eraserRadius)
HitByEraser(strokePoint, path, width) ==
    \E k \in 1..Len(path) : WithinRadius(strokePoint, path[k], width)

\* the indices of points that the filter keeps
KeptIndices(points, path, width) ==
    {i \in 1..Len(points) : ~HitByEraser(points[i], path, width)}

RECURSIVE PickFrom(_, _, _)
PickFrom(points, keep, i) ==
    IF i > Len(points) THEN <<>>
    ELSE IF i \in keep THEN <<points[i]>> \o PickFrom(points, keep, i + 1)
    ELSE PickFrom(points, keep, i + 1)

\* (variant: the hit test reads the point after the one being filtered)
FilterPointsShifted(points, path, width) ==
    PickFrom(points,
             {i \in 1..Len(points) :
                 ~(i < Len(points) /\ HitByEraser(points[i + 1], path, width))},
             1)

\* stroke.points.filter(...)
FilterPoints(points, path, width) ==
    PickFrom(points, KeptIndices(points, path, width), 1)

\* (variant: a stroke is kept whatever is left of it)
EnoughPointsNone(filteredPoints) == Len(filteredPoints) >= 0

\* (variant: a stroke is kept while any point is left)
EnoughPointsOne(filteredPoints) == Len(filteredPoints) >= 1

\* filteredPoints.length >= 2 ? {...stroke, points} : null
EnoughPoints(filteredPoints) == Len(filteredPoints) >= 2

RECURSIVE EraseFrom(_, _, _, _)
EraseFrom(S, path, width, i) ==
    IF i > Len(S) THEN <<>>
    ELSE LET filteredPoints == FilterPoints(S[i].points, path, width)
             rest == EraseFrom(S, path, width, i + 1)
         IN IF EnoughPoints(filteredPoints)
            THEN <<[S[i] EXCEPT !.points = filteredPoints]>> \o rest
            ELSE rest

\* (variant: the surviving strokes come out in reverse order)
EraseStrokesBackward(S, path, width) ==
    LET kept == EraseFrom(S, path, width, 1)
    IN [k \in 1..Len(kept) |-> kept[Len(kept) + 1 - k]]

\* strokes.map(...).filter(Boolean)
EraseStrokes(S, path, width) == EraseFrom(S, path, width, 1)

\* (variant: slice(0, 30), the first 30 strokes stay)
LimitOldest(S) == IF Len(S) <= StrokeCap THEN S ELSE SubSeq(S, 1, StrokeCap)

\* newStrokes.slice(-30)
Limit(S) ==
    IF Len(S) <= StrokeCap THEN S ELSE SubSeq(S, Len(S) - StrokeCap + 1, Len(S))

\* (variant: slice(1), the oldest stroke goes)
DropFirst(S) == IF Len(S) = 0 THEN S ELSE SubSeq(S, 2, Len(S))

\* currentStrokes.slice(0, -1)
DropLast(S) == IF Len(S) = 0 THEN S ELSE SubSeq(S, 1, Len(S) - 1)

\* (variant: only the new stroke is handed on)
AddStrokeDelta(S, newStroke) == <<newStroke>>

\* [...strokes, newStroke]
AddStroke(S, newStroke) == Append(S, newStroke)

\* handleToolSelect's switch
ToolWidth(tool) ==
    CASE tool = "pencil" -> PencilWidth
      [] tool = "marker" -> MarkerWidth
      [] tool = "brush" -> BrushWidth
      [] tool = "eraser" -> EraserWidth

\* (variant: the prop is not passed and the canvas uses its default, false)
IsErasingDefault == FALSE

\* props the modal passes to the canvas
IsErasing == selectedTool = "eraser"
StrokeColor == IF selectedTool = "eraser" THEN "transparent" ELSE selectedColor

----------------------------------------------------------------------------
(* Renderer. A primitive is written with the values its style is computed from: the
   segment's end points (from, to), its squared length in grid steps (len2), twice
   its midpoint (mid2), the tool whose characteristics it takes, and the stroke's
   color and width. A render is evaluated on a state; an error it raises is not fed
   back into the handlers. *)

\* a stroke's toolType that is missing (undefined)
Absent == ""

\* getToolCharacteristics(tool, pressure).smoothness
Smoothness(tool) ==
    CASE tool = "pencil" -> PencilSmoothness
      [] tool = "marker" -> MarkerSmoothness
      [] tool = "brush" -> BrushSmoothness
      [] OTHER -> DefaultSmoothness

\* (variant: every tool has the threshold 1.0)
ThresholdCoarse(tool) == CoarseThreshold

\* toolChars.smoothness > 0.7 ? 0.2 : 1.0
Threshold(tool) ==
    IF Smoothness(tool) > SmoothnessLimit THEN FineThreshold ELSE CoarseThreshold

\* distance > threshold
Exceeds(start, end, tool) ==
    25 * Dist2(start, end) > Threshold(tool) * Threshold(tool) * Scale * Scale

\* stroke.toolType || toolType
StrokeToolType(stroke, toolType) ==
    IF stroke.toolType = Absent THEN toolType ELSE stroke.toolType

Dot(point, tool, color, width) ==
    [kind |-> "dot", index |-> 0, from |-> point, to |-> point, len2 |-> 0,
     mid2 |-> Pt(2 * point.x, 2 * point.y), tool |-> tool, color |-> color,
     width |-> width]

Line(i, start, end, tool, color, width) ==
    [kind |-> "line", index |-> i, from |-> start, to |-> end,
     len2 |-> Dist2(start, end), mid2 |-> Pt(start.x + end.x, start.y + end.y),
     tool |-> tool, color |-> color, width |-> width]

\* the for loop over the segments, from segment i (0-based) on
RECURSIVE LinesFrom(_, _, _, _, _)
LinesFrom(points, i, tool, color, width) ==
    IF i >= Len(points) - 1 THEN <<>>
    ELSE (IF Exceeds(points[i + 1], points[i + 2], tool)
          THEN <<Line(i, points[i + 1], points[i + 2], tool, color, width)>>
          ELSE <<>>)
         \o LinesFrom(points, i + 1, tool, color, width)

\* renderStroke(stroke), toolType being the canvas' prop
RenderStroke(stroke, toolType) ==
    IF Len(stroke.points) < 1 THEN <<>>
    ELSE IF Len(stroke.points) = 1
    THEN <<Dot(stroke.points[1], StrokeToolType(stroke, toolType), stroke.color,
               stroke.strokeWidth)>>
    ELSE LinesFrom(stroke.points, 0, StrokeToolType(stroke, toolType), stroke.color,
                   stroke.strokeWidth)

\* Simulated pressure. A pressure is a fraction <<numerator, denominator>> with a
\* positive denominator; fractions are compared by cross-multiplication.
AtMost(a, b) == a[1] * b[2] <= b[1] * a[2]
Smaller(a, b) == IF AtMost(a, b) THEN a ELSE b    \* Math.min
Larger(a, b) == IF AtMost(a, b) THEN b ELSE a     \* Math.max
PressureFloor == <<1, 10>>      \* 0.1
PressureCeiling == <<1, 1>>     \* 1.0

\* Math.sqrt of a squared length in grid steps (exact on perfect squares, which is
\* what segments along one axis give; rounded down otherwise)
Root(n) == CHOOSE r \in 0..n : r * r <= n /\ (r + 1) * (r + 1) > n

\* speed = distance > 0 ? 1 / (distance + 1) : 1, distance = Root(..) / Scale
Speed(start, end) ==
    LET steps == Root(Dist2(start, end))
    IN IF steps > 0 THEN <<Scale, steps + Scale>> ELSE <<1, 1>>

\* (variant: the speed is used as it is)
SimulatedPressureRaw(start, end) == Speed(start, end)

\* pressure = Math.max(0.1, Math.min(1.0, speed))
SimulatedPressure(start, end) ==
    Larger(PressureFloor, Smaller(PressureCeiling, Speed(start, end)))

\* getToolCharacteristics: basePressure = Math.max(0.1, Math.min(1.0, pressure))
BasePressure(pressure) == Larger(PressureFloor, Smaller(PressureCeiling, pressure))

\* renderCurrentStroke() raises: a segment above the threshold reads strokeToolType,
\* which is not declared in renderCurrentStroke
CurrentStrokeRaises ==
    /\ isDrawing
    /\ Len(currentStroke) > 1
    /\ \E i \in 1..(Len(currentStroke) - 1) :
          Exceeds(currentStroke[i], currentStroke[i + 1], selectedTool)

\* renderCurrentStroke() when it does not raise
RenderCurrentStroke ==
    IF ~isDrawing \/ Len(currentStroke) < 1 THEN <<>>
    ELSE IF Len(currentStroke) = 1
    THEN <<Dot(currentStroke[1], selectedTool, StrokeColor, selectedStrokeWidth)>>
    ELSE <<>>    \* no segment is above the threshold: lines stays empty

\* strokes.filter(stroke => stroke && stroke.points).map(renderStroke)
RenderStrokes == [i \in 1..Len(strokes) |-> RenderStroke(strokes[i], selectedTool)]

----------------------------------------------------------------------------
(* History bookkeeping (not program state) *)

\* log describes the latest step: NoLog unless that step was a pointer-up, a Clear or
\* an Undo. After a mutating operation: what it was, the Drawing before it, the
\* buffer it used with the history of its gesture, for an erase the width, and the
\* arguments of the calls of the change callback it made, in order (sent)
Logged(op, path, sent) ==
    [op |-> op, prev |-> "none", before |-> currentStrokes, had |-> <<>>, path |-> path,
     width |-> IF op = "erase" THEN selectedStrokeWidth ELSE 0,
     gest |-> IF op = "clear" THEN NoGesture ELSE gest,
     sent |-> sent, note |-> NoNote]

\* after an Undo: the kind of the step it follows (prev) and, when that step was a
\* mutating operation, the Drawing before that operation
\* (before), and the Drawing this Undo found (had)
LoggedUndo ==
    [op |-> "undo", prev |-> log.op,
     before |-> IF log.op \in {"draw", "erase", "clear"} THEN log.before ELSE <<>>,
     had |-> currentStrokes, path |-> <<>>, width |-> 0, gest |-> NoGesture,
     sent |-> IF Len(currentStrokes) > 0 THEN <<DropLast(currentStrokes)>> ELSE <<>>,
     note |-> NoNote]

\* after a pointer-up that commits nothing
LoggedDiscard ==
    [NoLog EXCEPT !.op = "discard", !.before = currentStrokes, !.path = currentStroke]

\* after the editor is opened for a note, closed by Done (sent: what onSave was
\* called with; prev, before: the step Done follows) and closed by Cancel
LoggedOpen(note) == [NoLog EXCEPT !.op = "open", !.note = note]

LoggedSave(drawing) ==
    [NoLog EXCEPT !.op = "save", !.note = drawingNote, !.sent = <<drawing>>,
                  !.prev = log.op, !.before = log.before]

LoggedClose == [NoLog EXCEPT !.op = "close", !.note = drawingNote]

\* the gesture's history after pointer-down at p (erasing: the isErasing prop at that
\* time), and after a pointer-move to p that turns the buffer into buffer2
GestureBegun(p) ==
    [start |-> p, kept |-> 1, superseded |-> Len(currentStroke) > 0,
     moved |-> FALSE, near |-> TRUE, erasing |-> IsErasing]

GestureMoved(p, buffer2) ==
    [gest EXCEPT !.kept = @ + Len(buffer2) - Len(currentStroke),
                 !.moved = TRUE,
                 !.near = /\ @
                          /\ Defined(p)
                          /\ Defined(gest.start)
                          /\ Dist2(p, gest.start) <= Scale * Scale]

\* the session so far is n draw commits from the empty Drawing followed by m <= n
\* Undos; anything else breaks the pattern for good
RunBroken == [phase |-> "broken", commits |-> 0, undos |-> 0]

RunAfterCommit ==
    IF run.phase = "commits" THEN [run EXCEPT !.commits = @ + 1] ELSE RunBroken

RunAfterUndo ==
    IF run.phase \in {"commits", "undos"} /\ run.undos < run.commits
    THEN [run EXCEPT !.phase = "undos", !.undos = @ + 1]
    ELSE RunBroken

----------------------------------------------------------------------------
\* The editor open on a note that has no drawing yet
Init ==
    /\ currentStrokes = <<>>
    /\ selectedTool = "pencil"
    /\ selectedColor = "#ffffff"    \* isDark ? '#ffffff' : '#000000', dark theme
    /\ selectedStrokeWidth = InitialWidth
    /\ strokes = <<>>
    /\ currentStroke = <<>>
    /\ isDrawing = FALSE
    /\ touching = FALSE
    /\ nextId = 0
    /\ notes = [n \in Notes |-> <<>>]
    /\ drawingNote = "A"
    /\ showDrawingModal = TRUE
    /\ effectPending = FALSE
    /\ rendered = NothingRendered
    /\ inflight = {}
    /\ log = NoLog
    /\ gest = NoGesture
    /\ run = [phase |-> "commits", commits |-> 0, undos |-> 0]

\* The notes screen as mounted: the editor hidden, and in storage each note with no
\* drawing or with a drawing of one stroke of its own
PersistedId(note) == IF note = "A" THEN -1 ELSE -2

PersistedStroke(note) ==
    [id |-> PersistedId(note), points |-> <<Origin, Far>>, color |-> "#ffffff",
     strokeWidth |-> PencilWidth, toolType |-> "pencil"]

InitNotes ==
    /\ currentStrokes = <<>>
    /\ selectedTool = "pencil"
    /\ selectedColor = "#ffffff"
    /\ selectedStrokeWidth = InitialWidth
    /\ strokes = <<>>
    /\ currentStroke = <<>>
    /\ isDrawing = FALSE
    /\ touching = FALSE
    /\ nextId = 0
    /\ notes \in {[n \in Notes |-> IF n \in withDrawing THEN <<PersistedStroke(n)>> ELSE <<>>] :
                     withDrawing \in SUBSET Notes}
    /\ drawingNote = NoNote
    /\ showDrawingModal = FALSE
    /\ effectPending = FALSE
    /\ rendered = NothingRendered
    /\ inflight = {}
    /\ log = NoLog
    /\ gest = NoGesture
    /\ run = RunBroken

\* The editor showing a Drawing of one stroke, of at most MaxBuf points, made with any
\* tool or stored without a toolType
RenderInputs ==
    {[id |-> 1, points |-> pts, color |-> "#ffffff", strokeWidth |-> PencilWidth,
      toolType |-> tool] :
        pts \in UNION {[1..n -> RenderSamples] : n \in 1..MaxBuf},
        tool \in {"pencil", "marker", "brush", Absent}}

InitRender ==
    /\ \E stroke \in RenderInputs : currentStrokes = <<stroke>>
    /\ selectedTool = "pencil"
    /\ selectedColor = "#ffffff"
    /\ selectedStrokeWidth = InitialWidth
    /\ strokes = currentStrokes
    /\ currentStroke = <<>>
    /\ isDrawing = FALSE
    /\ touching = FALSE
    /\ nextId = 1
    /\ notes = [n \in Notes |-> <<>>]
    /\ drawingNote = "A"
    /\ showDrawingModal = TRUE
    /\ effectPending = FALSE
    /\ rendered = NothingRendered
    /\ inflight = {}
    /\ log = NoLog
    /\ gest = NoGesture
    /\ run = RunBroken

----------------------------------------------------------------------------
(* DrawingModal *)

\* handleDrawingChange, then the re-render and the canvas' useEffect
HandleDrawingChange(newStrokes) ==
    /\ currentStrokes' = Limit(newStrokes)
    /\ strokes' = currentStrokes'

HandleToolSelect(tool) ==
    /\ selectedTool' = tool
    /\ selectedStrokeWidth' = ToolWidth(tool)
    /\ log' = NoLog
    /\ UNCHANGED <<currentStrokes, selectedColor, strokes, canvasGesture, nextId, run>>
    /\ UNCHANGED <<hostVars, scheduled>>

SelectColor(c) ==
    /\ selectedColor' = c
    /\ log' = NoLog
    /\ UNCHANGED <<currentStrokes, selectedTool, selectedStrokeWidth, strokes,
                   canvasGesture, nextId, run>>
    /\ UNCHANGED <<hostVars, scheduled>>

SetStrokeWidth(size) ==
    /\ selectedStrokeWidth' = size
    /\ log' = NoLog
    /\ UNCHANGED <<currentStrokes, selectedTool, selectedColor, strokes,
                   canvasGesture, nextId, run>>
    /\ UNCHANGED <<hostVars, scheduled>>

HandleClear ==
    /\ HandleDrawingChange(<<>>)
    /\ log' = Logged("clear", <<>>, << <<>> >>)
    /\ run' = RunBroken
    /\ UNCHANGED <<modalStyle, canvasGesture, nextId>>
    /\ UNCHANGED <<hostVars, scheduled>>

HandleUndo ==
    /\ IF Len(currentStrokes) > 0
       THEN HandleDrawingChange(DropLast(currentStrokes))
       ELSE UNCHANGED <<currentStrokes, strokes>>
    /\ log' = LoggedUndo
    /\ run' = RunAfterUndo
    /\ UNCHANGED <<modalStyle, canvasGesture, nextId>>
    /\ UNCHANGED <<hostVars, scheduled>>

----------------------------------------------------------------------------
(* DrawingCanvas *)

OnPanResponderGrant(p) ==
    /\ ~touching
    /\ touching' = TRUE
    /\ isDrawing' = TRUE
    /\ currentStroke' = BeginBuffer(currentStroke, p)
    /\ gest' = GestureBegun(p)
    /\ log' = NoLog
    /\ UNCHANGED <<currentStrokes, modalStyle, strokes, nextId, run>>
    /\ UNCHANGED <<hostVars, scheduled>>

OnPanResponderMove(p) ==
    /\ touching
    /\ IF isDrawing
       THEN /\ currentStroke' = Extend(currentStroke, p)
            /\ gest' = GestureMoved(p, currentStroke')
       ELSE UNCHANGED <<currentStroke, gest>>
    /\ log' = NoLog
    /\ UNCHANGED <<currentStrokes, modalStyle, strokes, isDrawing, touching, nextId, run>>
    /\ UNCHANGED <<hostVars, scheduled>>

\* (variant: a buffer of one point is not committed)
ShouldCommitMoved == isDrawing /\ Len(currentStroke) > 1

\* if (isDrawing && currentStroke.length > 0)
ShouldCommit == isDrawing /\ Len(currentStroke) > 0

\* (variant: the points are clamped to the canvas)
NewStrokeClamped ==
    [id |-> nextId + 1,
     points |-> [i \in 1..Len(currentStroke) |->
                    LET q == currentStroke[i]
                        cx == IF q.x < 0 THEN 0
                              ELSE IF q.x > CanvasWidth * Scale THEN CanvasWidth * Scale
                              ELSE q.x
                        cy == IF q.y < 0 THEN 0
                              ELSE IF q.y > CanvasHeight * Scale THEN CanvasHeight * Scale
                              ELSE q.y
                    IN Pt(cx, cy)],
     color |-> StrokeColor, strokeWidth |-> selectedStrokeWidth, toolType |-> selectedTool]

NewStroke ==
    [id |-> nextId + 1, points |-> currentStroke, color |-> StrokeColor,
     strokeWidth |-> selectedStrokeWidth, toolType |-> selectedTool]

EraseCommit ==
    /\ HandleDrawingChange(EraseStrokes(strokes, currentStroke, selectedStrokeWidth))
    /\ log' = Logged("erase", currentStroke,
                      <<EraseStrokes(strokes, currentStroke, selectedStrokeWidth)>>)
    /\ run' = RunBroken
    /\ UNCHANGED nextId

DrawCommit ==
    /\ HandleDrawingChange(AddStroke(strokes, NewStroke))
    /\ nextId' = nextId + 1
    /\ log' = Logged("draw", currentStroke, <<AddStroke(strokes, NewStroke)>>)
    /\ run' = RunAfterCommit

OnPanResponderRelease ==
    /\ touching
    /\ touching' = FALSE
    /\ IF ShouldCommit
       THEN IF IsErasing THEN EraseCommit ELSE DrawCommit
       ELSE log' = LoggedDiscard /\ UNCHANGED <<currentStrokes, strokes, nextId, run>>
    /\ isDrawing' = FALSE
    /\ currentStroke' = <<>>
    /\ gest' = NoGesture
    /\ UNCHANGED modalStyle
    /\ UNCHANGED <<hostVars, scheduled>>

\* onPanResponderRelease when the call onDrawingChange?.(updatedStrokes) raises: the
\* setStrokes before it has been queued, the statements after it are not reached, and
\* the host has stored nothing
OnPanResponderReleaseRaising ==
    /\ touching
    /\ touching' = FALSE
    /\ ShouldCommit
    /\ IF IsErasing
       THEN /\ strokes' = EraseStrokes(strokes, currentStroke, selectedStrokeWidth)
            /\ UNCHANGED nextId
       ELSE /\ strokes' = AddStroke(strokes, NewStroke)
            /\ nextId' = nextId + 1
    /\ log' = [NoLog EXCEPT !.op = "raised", !.before = strokes, !.path = currentStroke]
    /\ run' = RunBroken
    /\ UNCHANGED <<currentStrokes, modalStyle, currentStroke, isDrawing, gest>>
    /\ UNCHANGED <<hostVars, scheduled>>

\* the responder is terminated by the system: no handler is registered for it
Terminate ==
    /\ touching
    /\ touching' = FALSE
    /\ log' = NoLog
    /\ gest' = NoGesture
    /\ UNCHANGED <<currentStrokes, modalStyle, strokes, currentStroke, isDrawing,
                   nextId, run>>
    /\ UNCHANGED <<hostVars, scheduled>>

----------------------------------------------------------------------------
(* The canvas and the modal with the effect as a step of its own. A handler and the
   re-render after it are one step, which leaves the canvas' effect on
   [initialStrokes] due whenever the modal has set a new currentStrokes; the effect
   runs before the next event is handled. *)

\* (variant: the effect copies nothing)
InitialStrokesStale == strokes

\* initialStrokes={currentStrokes}
InitialStrokes == currentStrokes

\* useEffect(() => { setStrokes(initialStrokes || []) }, [initialStrokes])
SyncEffect ==
    /\ effectPending
    /\ strokes' = InitialStrokes
    /\ effectPending' = FALSE
    /\ UNCHANGED <<currentStrokes, modalStyle, canvasGesture, nextId, hostVars,
                   rendered, inflight, log, run>>

\* onPanResponderRelease up to the re-render: setStrokes(updatedStrokes) in the
\* canvas, setCurrentStrokes(limitedStrokes) in the modal
OnPanResponderReleaseRendered ==
    /\ touching
    /\ touching' = FALSE
    /\ IF ShouldCommit
       THEN LET updatedStrokes ==
                    IF IsErasing
                    THEN EraseStrokes(strokes, currentStroke, selectedStrokeWidth)
                    ELSE AddStroke(strokes, NewStroke)
            IN /\ strokes' = updatedStrokes
               /\ currentStrokes' = Limit(updatedStrokes)
               /\ effectPending' = TRUE
               /\ nextId' = IF IsErasing THEN nextId ELSE nextId + 1
               /\ log' = Logged(IF IsErasing THEN "erase" ELSE "draw", currentStroke,
                                <<updatedStrokes>>)
               /\ run' = IF IsErasing THEN RunBroken ELSE RunAfterCommit
       ELSE /\ log' = LoggedDiscard
            /\ UNCHANGED <<currentStrokes, strokes, nextId, run, effectPending>>
    /\ isDrawing' = FALSE
    /\ currentStroke' = <<>>
    /\ gest' = NoGesture
    /\ UNCHANGED <<modalStyle, hostVars, rendered, inflight>>

\* handleClear up to the re-render
HandleClearRendered ==
    /\ currentStrokes' = Limit(<<>>)
    /\ effectPending' = TRUE
    /\ log' = Logged("clear", <<>>, << <<>> >>)
    /\ run' = RunBroken
    /\ UNCHANGED <<modalStyle, strokes, canvasGesture, nextId, hostVars, rendered,
                   inflight>>

\* handleUndo up to the re-render
HandleUndoRendered ==
    /\ IF Len(currentStrokes) > 0
       THEN currentStrokes' = DropLast(currentStrokes) /\ effectPending' = TRUE
       ELSE UNCHANGED <<currentStrokes, effectPending>>
    /\ log' = LoggedUndo
    /\ run' = RunAfterUndo
    /\ UNCHANGED <<modalStyle, strokes, canvasGesture, nextId, hostVars, rendered,
                   inflight>>

----------------------------------------------------------------------------
(* The canvas with the re-render as a step of its own. PanResponder.create runs in
   every render, so the handlers that receive an event are those of the latest
   render and read the isDrawing and currentStroke of that render; set-state calls
   are queued and take effect in state at once here, in what the handlers read only
   at the next Render. OnPanResponderGrant is the handler as it is: it reads neither. *)

Render ==
    /\ rendered # [isDrawing |-> isDrawing, currentStroke |-> currentStroke]
    /\ rendered' = [isDrawing |-> isDrawing, currentStroke |-> currentStroke]
    /\ UNCHANGED <<currentStrokes, modalStyle, strokes, canvasGesture, nextId, hostVars,
                   effectPending, inflight, log, run>>

\* onPanResponderMove: if (isDrawing) reads the render's value, the functional
\* update of setCurrentStroke applies to the latest buffer
OnPanResponderMoveFromRender(p) ==
    /\ touching
    /\ IF rendered.isDrawing
       THEN /\ currentStroke' = Extend(currentStroke, p)
            /\ gest' = GestureMoved(p, currentStroke')
       ELSE UNCHANGED <<currentStroke, gest>>
    /\ log' = NoLog
    /\ UNCHANGED <<currentStrokes, modalStyle, strokes, isDrawing, touching, nextId, run>>
    /\ UNCHANGED <<hostVars, scheduled>>

\* onPanResponderRelease: isDrawing and currentStroke are the render's values
OnPanResponderReleaseFromRender ==
    /\ touching
    /\ touching' = FALSE
    /\ IF rendered.isDrawing /\ Len(rendered.currentStroke) > 0
       THEN LET updatedStrokes ==
                    IF IsErasing
                    THEN EraseStrokes(strokes, rendered.currentStroke, selectedStrokeWidth)
                    ELSE AddStroke(strokes,
                                   [NewStroke EXCEPT !.points = rendered.currentStroke])
            IN /\ HandleDrawingChange(updatedStrokes)
               /\ nextId' = IF IsErasing THEN nextId ELSE nextId + 1
               /\ log' = Logged(IF IsErasing THEN "erase" ELSE "draw",
                                rendered.currentStroke, <<updatedStrokes>>)
               /\ run' = IF IsErasing THEN RunBroken ELSE RunAfterCommit
       ELSE /\ log' = [LoggedDiscard EXCEPT !.path = rendered.currentStroke,
                                            !.gest = gest]
            /\ UNCHANGED <<currentStrokes, strokes, nextId, run>>
    /\ isDrawing' = FALSE
    /\ currentStroke' = <<>>
    /\ gest' = NoGesture
    /\ UNCHANGED modalStyle
    /\ UNCHANGED <<hostVars, scheduled>>

----------------------------------------------------------------------------
(* Notes screen (src/unnamed/part_007) and the modal's Done and Cancel. The modal
   component stays mounted while hidden, so its useState values persist; the canvas
   is a child of the Modal and is mounted only while the modal is visible. *)

\* the canvas is not mounted: its state is written as the initial one
CanvasUnmounted ==
    /\ strokes' = <<>>
    /\ currentStroke' = <<>>
    /\ isDrawing' = FALSE
    /\ touching' = FALSE
    /\ gest' = NoGesture

\* initialDrawing={drawingNote?.drawing || []}
InitialDrawing == IF drawingNote = NoNote THEN <<>> ELSE notes[drawingNote]

\* handleAddDrawing(note); the canvas mounts with initialStrokes = currentStrokes
HandleAddDrawing(note) ==
    /\ ~showDrawingModal
    /\ drawingNote' = note
    /\ showDrawingModal' = TRUE
    /\ strokes' = currentStrokes
    /\ currentStroke' = <<>>
    /\ isDrawing' = FALSE
    /\ touching' = FALSE
    /\ gest' = NoGesture
    /\ log' = LoggedOpen(note)
    /\ UNCHANGED <<currentStrokes, modalStyle, nextId, notes, run>>
    /\ UNCHANGED scheduled

\* JSON.stringify of a point, a stroke, a drawing: the list of the properties written,
\* name and value; a property whose value is undefined is left out
StringifyPoint(point) ==
    IF Defined(point) THEN << <<"x", point.x>>, <<"y", point.y>> >> ELSE <<>>

\* (variant: the stored shape has no toolType)
StringifyStrokeBare(stroke) ==
    << <<"id", stroke.id>>,
       <<"points", [i \in 1..Len(stroke.points) |-> StringifyPoint(stroke.points[i])]>>,
       <<"color", stroke.color>>,
       <<"strokeWidth", stroke.strokeWidth>> >>

StringifyStroke(stroke) ==
    << <<"id", stroke.id>>,
       <<"points", [i \in 1..Len(stroke.points) |-> StringifyPoint(stroke.points[i])]>>,
       <<"color", stroke.color>>,
       <<"strokeWidth", stroke.strokeWidth>> >>
    \o (IF stroke.toolType = Absent THEN <<>> ELSE << <<"toolType", stroke.toolType>> >>)

Stringify(drawing) == [k \in 1..Len(drawing) |-> StringifyStroke(drawing[k])]

\* JSON.parse: a property that was not written reads as undefined
HasProperty(json, name) == \E i \in 1..Len(json) : json[i][1] = name
Property(json, name) == json[CHOOSE i \in 1..Len(json) : json[i][1] = name][2]

ParsePoint(json) ==
    IF HasProperty(json, "x") /\ HasProperty(json, "y")
    THEN Pt(Property(json, "x"), Property(json, "y"))
    ELSE Missing

ParseStroke(json) ==
    [id |-> Property(json, "id"),
     points |-> [i \in 1..Len(Property(json, "points")) |->
                    ParsePoint(Property(json, "points")[i])],
     color |-> Property(json, "color"),
     strokeWidth |-> Property(json, "strokeWidth"),
     toolType |-> IF HasProperty(json, "toolType") THEN Property(json, "toolType")
                  ELSE Absent]

Parse(json) == [k \in 1..Len(json) |-> ParseStroke(json[k])]

\* handleSaveDrawing(drawing), synchronous part and the update of the store: notes
\* holds what getAllNotes reads back from what updateNote wrote
HandleSaveDrawing(drawing) ==
    /\ notes' = IF drawingNote = NoNote THEN notes
                ELSE [notes EXCEPT ![drawingNote] = Parse(Stringify(drawing))]
    /\ drawingNote' = NoNote
    /\ showDrawingModal' = FALSE

\* onSave(currentStrokes)
SavedDrawing == currentStrokes

\* updateNote(updatedNote) as the storage runs it: the call is made, its getAllNotes
\* returns the stored list (existing), its setItem replaces the stored list. A call
\* in flight is [note, drawing, phase, existing], existing being NoSnapshot until
\* the list has been read.
NoSnapshot == [n \in Notes |-> <<>>]

UpdateNoteCalled(note, drawing) ==
    /\ Cardinality(inflight) < MaxCalls
    /\ inflight' = inflight \cup {[note |-> note, drawing |-> drawing,
                                    phase |-> "reading", existing |-> NoSnapshot]}
    /\ inflight' # inflight
    /\ log' = NoLog
    /\ UNCHANGED <<currentStrokes, modalStyle, strokes, canvasGesture, nextId, hostVars,
                   effectPending, rendered, run>>

\* const existing = await getAllNotes()
GetAllNotesReturned(call) ==
    /\ call.phase = "reading"
    /\ inflight' = (inflight \ {call})
                      \cup {[call EXCEPT !.phase = "writing", !.existing = notes]}
    /\ log' = NoLog
    /\ UNCHANGED <<currentStrokes, modalStyle, strokes, canvasGesture, nextId, hostVars,
                   effectPending, rendered, run>>

\* next = existing.map(note => note.id === updatedNote.id ? updatedNote : note);
\* await AsyncStorage.setItem(NOTES_KEY, JSON.stringify(next)). The log keeps the
\* note written and, as sent, the stored list that the write replaces
SetItemDone(call) ==
    /\ call.phase = "writing"
    /\ notes' = [n \in Notes |-> IF n = call.note THEN Parse(Stringify(call.drawing))
                                  ELSE call.existing[n]]
    /\ inflight' = inflight \ {call}
    /\ log' = [NoLog EXCEPT !.op = "write", !.note = call.note, !.sent = <<notes>>]
    /\ UNCHANGED <<currentStrokes, modalStyle, strokes, canvasGesture, nextId,
                   drawingNote, showDrawingModal, effectPending, rendered, run>>

\* handleSave: onSave(currentStrokes); onClose()
HandleSave ==
    /\ showDrawingModal
    /\ HandleSaveDrawing(SavedDrawing)
    /\ CanvasUnmounted
    /\ log' = LoggedSave(SavedDrawing)
    /\ UNCHANGED <<currentStrokes, modalStyle, nextId, run>>
    /\ UNCHANGED scheduled

\* handleClose: setCurrentStrokes(initialDrawing || []); onClose() = handleCloseDrawing
HandleClose ==
    /\ showDrawingModal
    /\ currentStrokes' = InitialDrawing
    /\ drawingNote' = NoNote
    /\ showDrawingModal' = FALSE
    /\ CanvasUnmounted
    /\ log' = LoggedClose
    /\ run' = RunBroken
    /\ UNCHANGED <<modalStyle, nextId, notes>>
    /\ UNCHANGED scheduled

----------------------------------------------------------------------------
\* The canvas refuses to give up the responder (onPanResponderTerminationRequest:
\* () => false), so the modal's buttons are pressed only while it holds no touch.
Next ==
    \/ \E tool \in ToolChoices : ~touching /\ HandleToolSelect(tool)
    \/ \E size \in SizeChoices : ~touching /\ SetStrokeWidth(size)
    \/ ~touching /\ HandleClear
    \/ ~touching /\ HandleUndo
    \/ \E p \in GrantSamples : OnPanResponderGrant(p)
    \/ \E p \in MoveSamples : Len(currentStroke) < MaxBuf /\ OnPanResponderMove(p)
    \/ (IsErasing \/ nextId < MaxStrokesMade) /\ OnPanResponderRelease
    \/ Terminate

Spec == Init /\ [][Next]_vars

\* The session of N taps with the pencil at the origin, in either colour, then Undos,
\* long enough to pass the stroke cap
NextCap ==
    \/ \E c \in ColorChoices : ~touching /\ selectedColor # c /\ SelectColor(c)
    \/ run.phase = "commits" /\ ~touching /\ nextId < CapCommits /\ OnPanResponderGrant(Origin)
    \/ OnPanResponderRelease
    \/ ~touching /\ run.phase \in {"commits", "undos"} /\ run.undos < run.commits /\ HandleUndo

SpecCap == Init /\ [][NextCap]_vars

\* The session of draw gestures across the stroke cap: the first gesture and the last
\* one are free in their samples and style, the ones between are pencil taps at the
\* origin
FreeGesture == nextId = 0 \/ nextId >= CapCommits - 1

NextDraw ==
    \/ \E tool \in DrawTools : ~touching /\ FreeGesture /\ HandleToolSelect(tool)
    \/ \E c \in ColorChoices : ~touching /\ FreeGesture /\ selectedColor # c /\ SelectColor(c)
    \/ \E p \in DrawSamples :
          /\ nextId < CapCommits
          /\ FreeGesture \/ p = Origin
          /\ OnPanResponderGrant(p)
    \/ \E p \in DrawSamples :
          FreeGesture /\ Len(currentStroke) < MaxBuf /\ OnPanResponderMove(p)
    \/ OnPanResponderRelease

SpecDraw == Init /\ [][NextDraw]_vars

\* The session of pencil taps at the origin across the stroke cap, with Undo, Clear
\* and the eraser at its start and past the cap, ended by Done
FreeOperation == nextId <= 1 \/ nextId >= CapCommits - 1

NextNotify ==
    \/ ~touching /\ showDrawingModal /\ nextId < CapCommits /\ OnPanResponderGrant(Origin)
    \/ showDrawingModal /\ OnPanResponderRelease
    \/ ~touching /\ showDrawingModal /\ FreeOperation /\ HandleUndo
    \/ ~touching /\ showDrawingModal /\ FreeOperation /\ HandleClear
    \/ \E tool \in ToolChoices :
          /\ ~touching /\ showDrawingModal /\ FreeOperation
          /\ selectedTool # tool
          /\ HandleToolSelect(tool)
    \/ ~touching /\ FreeOperation /\ HandleSave

SpecNotify == Init /\ [][NextNotify]_vars

\* Sessions of the editor over the notes: open, tap, Undo, Done, Cancel
NextNotes ==
    \/ \E note \in Notes : HandleAddDrawing(note)
    \/ showDrawingModal /\ nextId < MaxStrokesMade /\ OnPanResponderGrant(Origin)
    \/ showDrawingModal /\ OnPanResponderRelease
    \/ showDrawingModal /\ ~touching /\ HandleUndo
    \/ ~touching /\ HandleSave
    \/ ~touching /\ HandleClose

SpecNotes == InitNotes /\ [][NextNotes]_vars

\* Draw gestures some of whose events carry no coordinates
NextMissing ==
    \/ \E p \in MissingSamples : nextId < MaxStrokesMade /\ OnPanResponderGrant(p)
    \/ \E p \in MissingSamples : Len(currentStroke) < MaxBuf /\ OnPanResponderMove(p)
    \/ OnPanResponderRelease
    \/ ~touching /\ HandleUndo

SpecMissing == Init /\ [][NextMissing]_vars

\* The canvas under a host whose change callback may raise
NextRaising ==
    \/ \E tool \in ToolChoices : ~touching /\ selectedTool # tool /\ HandleToolSelect(tool)
    \/ \E p \in {Origin, Far} : OnPanResponderGrant(p)
    \/ \E p \in {Origin, Far} : Len(currentStroke) < MaxBuf /\ OnPanResponderMove(p)
    \/ (IsErasing \/ nextId < MaxStrokesMade) /\ OnPanResponderRelease
    \/ (IsErasing \/ nextId < MaxStrokesMade) /\ OnPanResponderReleaseRaising

SpecRaising == Init /\ [][NextRaising]_vars

\* The committed Drawing rendered again after each change of the selection
NextRender ==
    \/ \E tool \in Tools : selectedTool # tool /\ HandleToolSelect(tool)
    \/ \E c \in ColorChoices : selectedColor # c /\ SelectColor(c)

SpecRender == InitRender /\ [][NextRender]_vars

\* A Drawing of one stroke saved into a note and read back
NextStore ==
    \/ \E tool \in Tools : showDrawingModal /\ selectedTool # tool /\ HandleToolSelect(tool)
    \/ HandleSave
    \/ \E note \in Notes : HandleAddDrawing(note)

SpecStore == InitRender /\ [][NextStore]_vars

\* The canvas under a host that changes the isErasing, toolType and strokeWidth props
\* at any time, also while the responder holds a touch (the tool buttons are
\* Pressables, which a keyboard or an accessibility action activates too)
NextMode ==
    \/ \E tool \in ToolChoices : selectedTool # tool /\ HandleToolSelect(tool)
    \/ \E p \in {Origin, Far} : OnPanResponderGrant(p)
    \/ \E p \in {Origin, Far} : Len(currentStroke) < MaxBuf /\ OnPanResponderMove(p)
    \/ (IsErasing \/ nextId < MaxStrokesMade) /\ OnPanResponderRelease

SpecMode == Init /\ [][NextMode]_vars

\* The session of SpecNotify without Done, the canvas' effect being a step of its own
NextSync ==
    \/ SyncEffect
    \/ ~touching /\ ~effectPending /\ nextId < CapCommits /\ OnPanResponderGrant(Origin)
    \/ ~effectPending /\ OnPanResponderReleaseRendered
    \/ ~touching /\ ~effectPending /\ FreeOperation /\ HandleUndoRendered
    \/ ~touching /\ ~effectPending /\ FreeOperation /\ HandleClearRendered
    \/ \E tool \in ToolChoices :
          /\ ~touching /\ ~effectPending /\ FreeOperation
          /\ selectedTool # tool
          /\ HandleToolSelect(tool)

SpecSync == Init /\ [][NextSync]_vars

\* Gestures whose events are handled before or after the re-render that follows the
\* event before them; a gesture begins once the previous one has been rendered
NextRace ==
    \/ Render
    \/ \E tool \in ToolChoices : ~touching /\ selectedTool # tool /\ HandleToolSelect(tool)
    \/ \E p \in {Origin, Far} :
          /\ rendered = [isDrawing |-> isDrawing, currentStroke |-> currentStroke]
          /\ OnPanResponderGrant(p)
    \/ \E p \in {Origin, Far} :
          Len(currentStroke) < MaxBuf /\ OnPanResponderMoveFromRender(p)
    \/ (IsErasing \/ nextId < MaxStrokesMade) /\ OnPanResponderReleaseFromRender

SpecRace == Init /\ [][NextRace]_vars

\* Calls of updateNote, each for a note and a drawing, whose reads and writes
\* interleave
NextStorage ==
    \/ \E note \in Notes : \E drawing \in {<<>>, <<PersistedStroke(note)>>} :
          UpdateNoteCalled(note, drawing)
    \/ \E call \in inflight : GetAllNotesReturned(call)
    \/ \E call \in inflight : SetItemDone(call)

SpecStorage == InitNotes /\ [][NextStorage]_vars

----------------------------------------------------------------------------
(* Properties *)

IdsOf(S) == {S[i].id : i \in 1..Len(S)}

\* the points of the stroke of S with this id, <<>> when S has no such stroke
PointsOf(S, id) ==
    IF \E i \in 1..Len(S) : S[i].id = id
    THEN S[CHOOSE i \in 1..Len(S) : S[i].id = id].points
    ELSE <<>>

\* reference for the eraser's hit test: some path point at Euclidean distance <= width/2
Near(p, path, width) ==
    \E k \in 1..Len(path) :
        4 * ((p.x - path[k].x) * (p.x - path[k].x) + (p.y - path[k].y) * (p.y - path[k].y))
            <= (width * Scale) * (width * Scale)

\* reference: the points that are near no path point, in order
RECURSIVE Unhit(_, _, _)
Unhit(points, path, width) ==
    IF points = <<>> THEN <<>>
    ELSE (IF Near(Head(points), path, width) THEN <<>> ELSE <<Head(points)>>)
         \o Unhit(Tail(points), path, width)

LastStroke == currentStrokes[Len(currentStrokes)]

\* C1: an Undo issued right after a mutating operation (draw commit, erase commit,
\* Clear) makes the Drawing equal to the Drawing before that operation.
C1_UndoRestoresSnapshot ==
    (log.op = "undo" /\ log.prev \in {"draw", "erase", "clear"})
        => currentStrokes = log.before

\* C2: Clear of a non-empty Drawing D followed at once by Undo leaves the Drawing
\* equal to D.
C2_ClearThenUndoRestores ==
    (log.op = "undo" /\ log.prev = "clear" /\ Len(log.before) > 0)
        => (currentStrokes = log.before /\ strokes = log.before)

\* C3: from the empty Drawing, N draw commits followed by N Undos leave the Drawing
\* empty (N may exceed the stroke cap), and each Undo that finds a stroke removes
\* exactly the last one, which is the most recently committed one still present,
\* and leaves the earlier strokes as they were.
C3_CommitsThenUndos ==
    /\ (run.phase = "undos" /\ run.undos = run.commits)
          => (currentStrokes = <<>> /\ strokes = <<>>)
    /\ (log.op = "undo" /\ Len(log.had) > 0)
          => /\ currentStrokes = SubSeq(log.had, 1, Len(log.had) - 1)
             /\ \A i \in 1..Len(log.had) : log.had[i].id <= log.had[Len(log.had)].id

C3_Witness ==
    run.phase = "undos" /\ run.undos = run.commits /\ run.commits > StrokeCap

\* C4 as claimed: after an erase commit a point of a stroke is gone if and only if
\* some eraser-path point lies within the radius of it.
C4_ErasedIffWithinRadiusOnly ==
    log.op = "erase" =>
        \A k \in 1..Len(log.before) :
            PointsOf(currentStrokes, log.before[k].id)
                = Unhit(log.before[k].points, log.path, log.width)

\* C4 (amended): after an erase commit a point of a stroke is gone if and only if
\* some eraser-path point lies within the radius of it (boundary included), or fewer
\* than 2 points of its stroke lie outside the radius of every eraser-path point (the
\* whole stroke is then gone). The hit test puts (4,0) within radius 3 of (5,0) and
\* (10,0) outside it; it puts (3,0), on the boundary, within radius 3 of the origin,
\* and (1,1) outside radius 1 of the origin.
C4_ErasedIffWithinRadius ==
    /\ log.op = "erase" =>
          \A k \in 1..Len(log.before) :
              LET left == Unhit(log.before[k].points, log.path, log.width)
              IN PointsOf(currentStrokes, log.before[k].id)
                     = IF Len(left) >= 2 THEN left ELSE <<>>
    /\ HitByEraser(Pt(4 * Scale, 0), <<Pt(5 * Scale, 0)>>, 6)
    /\ ~HitByEraser(Pt(10 * Scale, 0), <<Pt(5 * Scale, 0)>>, 6)
    /\ HitByEraser(Pt(3 * Scale, 0), <<Origin>>, 6)
    /\ ~HitByEraser(Pt(Scale, Scale), <<Origin>>, 2)

\* an erase that took a point off a stroke which is still there, and took another
\* stroke away with a point outside the radius
C4_Witness ==
    /\ log.op = "erase"
    /\ \E k \in 1..Len(log.before) :
          LET pts == log.before[k].points
              now == PointsOf(currentStrokes, log.before[k].id)
          IN /\ Len(now) >= 2
             /\ Len(now) < Len(pts)
    /\ \E k \in 1..Len(log.before) :
          /\ log.before[k].id \notin IdsOf(currentStrokes)
          /\ Len(Unhit(log.before[k].points, log.path, log.width)) = 1

\* C5: right after an erase commit every stroke of the Drawing has at least 2
\* points, and every stroke left with fewer than 2 points outside the eraser's
\* radius is absent.
C5_ShortStrokesRemoved ==
    log.op = "erase" =>
        /\ \A i \in 1..Len(currentStrokes) : Len(currentStrokes[i].points) >= 2
        /\ \A k \in 1..Len(log.before) :
              Len(Unhit(log.before[k].points, log.path, log.width)) < 2
                  => log.before[k].id \notin IdsOf(currentStrokes)

\* an erase that left exactly one point of a stroke outside its radius
C5_Witness ==
    /\ log.op = "erase"
    /\ \E k \in 1..Len(log.before) :
          /\ Len(Unhit(log.before[k].points, log.path, log.width)) = 1
          /\ Len(log.before[k].points) >= 2
          /\ log.before[k].id \notin IdsOf(currentStrokes)

\* C6: the erase pass is idempotent: erasing the Drawing an erase commit produced
\* with the same path and width changes nothing.
C6_EraseIdempotent ==
    log.op = "erase" =>
        EraseStrokes(currentStrokes, log.path, log.width) = currentStrokes

\* an erase that removed points and left strokes to erase again
C6_Witness ==
    /\ log.op = "erase"
    /\ currentStrokes # log.before
    /\ Len(currentStrokes) > 0

\* C7: no stroke of the Drawing has toolType eraser or color transparent, and an
\* erase commit adds no stroke: the strokes after it are strokes that were there
\* before it, and they are not more.
C7_NoEraserInk ==
    /\ \A i \in 1..Len(currentStrokes) :
          /\ currentStrokes[i].toolType # "eraser"
          /\ currentStrokes[i].color # "transparent"
    /\ log.op = "erase" =>
          /\ IdsOf(currentStrokes) \subseteq IdsOf(log.before)
          /\ Len(currentStrokes) <= Len(log.before)
    /\ (selectedTool = "eraser" /\ log.op \in {"draw", "erase", "discard"})
          => log.op = "erase"

\* a gesture ended in erase mode over a Drawing that keeps a stroke
C7_Witness ==
    /\ log.op = "erase"
    /\ Len(log.path) > 0
    /\ Len(currentStrokes) > 0

\* C8 as claimed: a pointer-up in draw mode with a buffer of one point leaves the
\* Drawing unchanged.
C8_TapDiscarded ==
    (log.op = "draw" /\ Len(log.path) = 1) => currentStrokes = log.before

\* C8 (amended): a pointer-up in draw mode with a buffer of one point commits that
\* point as a one-point stroke at the end of the Drawing, and no pointer-up discards
\* a buffer that holds a point.
C8_TapCommitsDot ==
    /\ (log.op = "draw" /\ Len(log.path) = 1)
          => /\ Len(currentStrokes) > 0
             /\ LastStroke.points = log.path
             /\ LastStroke.id \notin IdsOf(log.before)
             /\ Len(log.before) < StrokeCap
                   => SubSeq(currentStrokes, 1, Len(currentStrokes) - 1) = log.before
    /\ log.op = "discard" => Len(log.path) = 0

\* a gesture with no pointer-move ended in draw mode
C8_Witness ==
    log.op = "draw" /\ Len(log.path) = 1 /\ ~log.gest.moved

\* C9: while a gesture is in progress the buffer begins with the pointer-down point;
\* no two consecutive points of the buffer are closer than one canvas unit; and while
\* every sample of the gesture lies within one canvas unit of the pointer-down point
\* the buffer holds exactly one point.
C9_BufferSimplified ==
    /\ touching => (Len(currentStroke) >= 1 /\ currentStroke[1] = gest.start)
    /\ \A i \in 1..(Len(currentStroke) - 1) :
          Dist2(currentStroke[i], currentStroke[i + 1]) >= Scale * Scale
    /\ (touching /\ gest.near) => Len(currentStroke) = 1

\* pointer-moves that stayed within one unit of the pointer-down point
C9_Witness ==
    touching /\ gest.moved /\ gest.near /\ Len(currentStroke) = 1

\* C10: right after pointer-down at p the buffer is <<p>>; the buffer a pointer-up
\* uses holds the points retained since the pointer-down of its gesture, beginning
\* with that point, and a draw commit stores exactly that buffer.
C10_OneBuffer ==
    /\ (touching /\ ~gest.moved) => currentStroke = <<gest.start>>
    /\ log.op \in {"draw", "erase"}
          => (Len(log.path) = log.gest.kept /\ log.path[1] = log.gest.start)
    /\ log.op = "draw" => LastStroke.points = log.path

\* a draw commit of a gesture whose pointer-down found an unfinished buffer
C10_Witness ==
    log.op = "draw" /\ log.gest.superseded

\* C11 as claimed: a draw commit turns the Drawing D into D followed by one new
\* stroke, whose points are the buffer as sampled and whose color, strokeWidth and
\* toolType are the selected ones.
C11_CommitAppendsOnly ==
    log.op = "draw" =>
        /\ Len(currentStrokes) > 0
        /\ currentStrokes = Append(log.before, LastStroke)
        /\ LastStroke.id \notin IdsOf(log.before)
        /\ LastStroke.points = log.path
        /\ LastStroke.color = selectedColor
        /\ LastStroke.strokeWidth = selectedStrokeWidth
        /\ LastStroke.toolType = selectedTool

\* C11 (amended): a draw commit turns a Drawing D of fewer than 30 strokes into D
\* followed by one new stroke, and a Drawing D of 30 strokes into D without its first
\* stroke followed by one new stroke; the new stroke's points are the buffer as
\* sampled, unclamped, and its color, strokeWidth and toolType are the selected ones;
\* the strokes of D that stay are unchanged and in order.
C11_CommitAppends ==
    log.op = "draw" =>
        /\ Len(currentStrokes) > 0
        /\ Len(log.before) <= StrokeCap
        /\ currentStrokes =
              Append(IF Len(log.before) < StrokeCap THEN log.before ELSE Tail(log.before),
                     LastStroke)
        /\ LastStroke.id \notin IdsOf(log.before)
        /\ LastStroke.points = log.path
        /\ LastStroke.color = selectedColor
        /\ LastStroke.strokeWidth = selectedStrokeWidth
        /\ LastStroke.toolType = selectedTool

\* a marker stroke with a point outside the canvas, committed onto a full Drawing
C11_Witness ==
    /\ log.op = "draw"
    /\ Len(log.before) = StrokeCap
    /\ LastStroke.toolType = "marker"
    /\ LastStroke.color = "#ff3b30"
    /\ \E i \in 1..Len(LastStroke.points) :
          LastStroke.points[i].x < 0 /\ LastStroke.points[i].y > CanvasHeight * Scale

\* the last 30 strokes of a list
LatestStrokes(S) ==
    [i \in 1..(IF Len(S) < StrokeCap THEN Len(S) ELSE StrokeCap) |->
        S[i + (IF Len(S) < StrokeCap THEN 0 ELSE Len(S) - StrokeCap)]]

\* C12 as claimed: each commit, erase, Undo and Clear is followed by exactly one call
\* of the change callback, carrying the Drawing that results from the operation; and
\* Done hands to onSave the Drawing that resulted from the last operation.
C12_NotifiedResult ==
    /\ log.op \in {"draw", "erase", "undo", "clear"} => log.sent = <<currentStrokes>>
    /\ log.op = "save" => (log.sent = <<currentStrokes>> /\ notes[log.note] = currentStrokes)

\* C12 (amended): each draw commit, erase commit and Clear, and each Undo that finds a
\* stroke, is followed by exactly one call of the change callback; the call carries a
\* complete list of strokes, of which the resulting Drawing is the last 30: for a draw
\* commit the Drawing before it followed by the new stroke (31 strokes when the
\* Drawing was full), otherwise the resulting Drawing itself. An Undo that finds no
\* stroke makes no call and leaves the Drawing empty. Done hands to onSave, and the
\* host stores for the note, the working Drawing, which is the Drawing that resulted
\* from the last operation.
C12_Notified ==
    /\ log.op \in {"draw", "erase", "clear"}
          => (Len(log.sent) = 1 /\ currentStrokes = LatestStrokes(log.sent[1]))
    /\ log.op = "draw"
          => (Len(currentStrokes) > 0 /\ log.sent[1] = Append(log.before, LastStroke))
    /\ log.op \in {"erase", "clear"} => log.sent[1] = currentStrokes
    /\ log.op = "undo"
          => IF Len(log.had) > 0
             THEN log.sent = <<currentStrokes>> /\ Len(currentStrokes) = Len(log.had) - 1
             ELSE log.sent = <<>> /\ currentStrokes = <<>>
    /\ log.op = "save" => (log.sent = <<currentStrokes>> /\ notes[log.note] = currentStrokes)

\* Done pressed right after a draw commit onto a full Drawing
C12_Witness ==
    log.op = "save" /\ log.prev = "draw" /\ Len(log.before) = StrokeCap

\* C13: the working Drawing never holds more than 30 strokes; a draw commit onto a
\* Drawing of 30 strokes leaves exactly the 30 most recent strokes, in their order and
\* unmodified: the Drawing before it without its oldest stroke, then the new stroke,
\* every retained stroke younger than the dropped one.
C13_BoundedHistory ==
    /\ Len(currentStrokes) <= StrokeCap
    /\ Len(strokes) <= StrokeCap
    /\ (log.op = "draw" /\ Len(log.before) = StrokeCap)
          => /\ Len(currentStrokes) = StrokeCap
             /\ SubSeq(currentStrokes, 1, StrokeCap - 1) = SubSeq(log.before, 2, StrokeCap)
             /\ currentStrokes[StrokeCap].id \notin IdsOf(log.before)
             /\ \A i \in 1..StrokeCap : currentStrokes[i].id > log.before[1].id

\* a draw commit onto a full Drawing
C13_Witness ==
    log.op = "draw" /\ Len(log.before) = StrokeCap /\ Len(currentStrokes) = StrokeCap

\* C14: when the editor is opened for a note, the working Drawing is that note's
\* persisted drawing; and a stroke persisted with one note never shows up in the
\* persisted drawing of another note.
C14_DrawingOwnedByNote ==
    /\ log.op = "open" => currentStrokes = notes[drawingNote]
    /\ \A n \in Notes : \A i \in 1..Len(notes[n]) :
          notes[n][i].id < 0 => notes[n][i].id = PersistedId(n)

\* C15: in every state the render of the live buffer completes without raising.
C15_LiveRenderCompletes == ~CurrentStrokeRaises

\* reference: the segments (0-based) of a point list longer than d fifths of a unit
LongSegments(points, d) ==
    {i \in 0..(Len(points) - 2) :
        25 * Dist2(points[i + 1], points[i + 2]) > d * d * Scale * Scale}

\* C16: an event without coordinates is a no-op: the buffer never holds a point with
\* an undefined coordinate, and no stroke of the Drawing does.
C16_MissingIsNoOp ==
    /\ \A i \in 1..Len(currentStroke) : Defined(currentStroke[i])
    /\ \A k \in 1..Len(currentStrokes) : \A i \in 1..Len(currentStrokes[k].points) :
          Defined(currentStrokes[k].points[i])

\* C17: after a pointer-up whose change callback raised, the canvas is idle, its
\* buffer is empty and its Drawing is the fully updated one.
C17_CallbackFailureHarmless ==
    log.op = "raised" =>
        /\ ~isDrawing
        /\ currentStroke = <<>>
        /\ strokes = IF IsErasing
                     THEN EraseStrokes(log.before, log.path, selectedStrokeWidth)
                     ELSE Append(log.before, strokes[Len(strokes)])

\* C18: no stroke of the working Drawing, nor of the canvas' copy, has 0 points.
C18_NoEmptyStroke ==
    /\ \A k \in 1..Len(currentStrokes) : Len(currentStrokes[k].points) >= 1
    /\ \A k \in 1..Len(strokes) : Len(strokes[k].points) >= 1

\* an erase that hit every point of a stroke and left another stroke in the Drawing
C18_Witness ==
    /\ log.op = "erase"
    /\ Len(currentStrokes) > 0
    /\ \E k \in 1..Len(log.before) :
          /\ Unhit(log.before[k].points, log.path, log.width) = <<>>
          /\ log.before[k].id \notin IdsOf(currentStrokes)

\* C19: a committed stroke of 1 point renders as exactly one dot at that point; a
\* pencil, marker or brush stroke of N > 1 points renders as at most N-1 primitives,
\* one line for each consecutive pair farther apart than the tool's threshold (1.0
\* for pencil, 0.2 for marker and brush), in order, and none for the others; the
\* points (0,0),(10,0) with pencil give one primitive of length 10 centred at (5,0).
C19_RenderedPrimitives ==
    /\ \A k \in 1..Len(strokes) :
          LET stroke == strokes[k]
              out == RenderStrokes[k]
              N == Len(stroke.points)
              d == IF stroke.toolType = "pencil" THEN 5 ELSE 1
          IN /\ N = 1 => /\ Len(out) = 1
                          /\ out[1].kind = "dot"
                          /\ out[1].from = stroke.points[1]
             /\ (N > 1 /\ stroke.toolType \in {"pencil", "marker", "brush"})
                   => /\ Len(out) <= N - 1
                      /\ Len(out) = Cardinality(LongSegments(stroke.points, d))
                      /\ \A j \in 1..Len(out) :
                            /\ out[j].kind = "line"
                            /\ out[j].index \in LongSegments(stroke.points, d)
                            /\ out[j].from = stroke.points[out[j].index + 1]
                            /\ out[j].to = stroke.points[out[j].index + 2]
                            /\ j > 1 => out[j - 1].index < out[j].index
    /\ LET out == RenderStroke([id |-> 1, points |-> <<Origin, Pt(10 * Scale, 0)>>,
                                color |-> "#ffffff", strokeWidth |-> 2,
                                toolType |-> "pencil"], selectedTool)
       IN /\ Len(out) = 1
          /\ out[1].len2 = (10 * Scale) * (10 * Scale)
          /\ out[1].mid2 = Pt(2 * 5 * Scale, 0)

\* a marker stroke of three points rendered as one line, its other pair being too short
C19_Witness ==
    /\ Len(strokes) = 1
    /\ strokes[1].toolType = "marker"
    /\ Len(strokes[1].points) = 3
    /\ Len(RenderStrokes[1]) = 1
    /\ selectedTool = "brush"

\* C20: the primitives of a committed stroke do not depend on the selection: the
\* render of every stroke of the Drawing is the same under every selected tool.
C20_RenderDeterministic ==
    \A k \in 1..Len(strokes) : \A tool \in Tools :
        RenderStroke(strokes[k], tool) = RenderStrokes[k]

\* C21: the Drawing read back from a note equals the Drawing Done saved into it:
\* the same strokes in the same order, each with the same id, points, color,
\* strokeWidth and toolType, and so with the same render under every selected tool.
C21_RoundTrip ==
    log.op = "save" =>
        /\ notes[log.note] = log.sent[1]
        /\ Len(notes[log.note]) = Len(log.sent[1])
        /\ \A k \in 1..Len(log.sent[1]) : \A tool \in Tools :
              RenderStroke(notes[log.note][k], tool) = RenderStroke(log.sent[1][k], tool)

\* a marker stroke of three points saved and read back
C21_Witness ==
    /\ log.op = "save"
    /\ Len(log.sent[1]) = 1
    /\ log.sent[1][1].toolType = "marker"
    /\ Len(log.sent[1][1].points) = 3
    /\ Len(notes[log.note]) = 1

\* C22: what pointer-up does with the buffer is decided by the mode in effect at
\* pointer-down: a gesture begun in erase mode erases, a gesture begun in draw mode
\* commits a stroke, whatever tool is selected in between.
C22_ModeFixedAtStart ==
    /\ log.op = "erase" => log.gest.erasing
    /\ log.op = "draw" => ~log.gest.erasing

\* C23 (as stated): during a gesture, an incoming point p is appended to the buffer
\* exactly when its Euclidean distance to the last retained point exceeds 1; so once
\* a sample farther than 1 from the start has been seen, the buffer has a second point.
C23_EuclideanFilter ==
    (touching /\ isDrawing /\ Len(currentStroke) >= 1) =>
        /\ \A p \in MoveSamples :
              Extend(currentStroke, p) = Append(currentStroke, p)
              <=> Dist2(currentStroke[Len(currentStroke)], p)
                    > MoveThreshold * MoveThreshold * Scale * Scale
        /\ (gest.moved /\ ~gest.near) => Len(currentStroke) >= 2

\* C23 (amended): an incoming point p is appended exactly when it differs from the
\* last retained point by more than 1 along the x axis or along the y axis;
\* otherwise the buffer is unchanged. An appended point is more than 1 away in
\* Euclidean distance, and a point within Euclidean distance 1 is never appended.
C23_AxisFilter ==
    (touching /\ isDrawing /\ Len(currentStroke) >= 1) =>
        \A p \in MoveSamples :
            LET q == currentStroke[Len(currentStroke)]
                apart == \/ p.x - q.x > Scale \/ q.x - p.x > Scale
                         \/ p.y - q.y > Scale \/ q.y - p.y > Scale
            IN /\ apart => Extend(currentStroke, p) = Append(currentStroke, p)
               /\ ~apart => Extend(currentStroke, p) = currentStroke
               /\ Extend(currentStroke, p) # currentStroke
                     => Dist2(q, p) > Scale * Scale

\* a sample farther than 1 from the start was handled and the buffer is still the
\* start point alone
C23_Witness ==
    /\ touching /\ isDrawing
    /\ gest.moved /\ ~gest.near
    /\ currentStroke = <<Origin>>

\* a is b with some of its elements left out, the others in their order
IsSubsequence(a, b) ==
    \E K \in SUBSET (1..Len(b)) :
        /\ Cardinality(K) = Len(a)
        /\ \A j \in 1..Len(a) :
              a[j] = b[CHOOSE i \in K : Cardinality({m \in K : m <= i}) = j]

\* C24: an erase commit changes the Drawing only by removing strokes and by
\* removing points of strokes: the strokes after it are strokes from before it,
\* each once (none is split) and in their z-order, each with its id, color,
\* strokeWidth and toolType and with points that are a subsequence of its former
\* points; the number of strokes does not grow.
C24_EraseTruncatesOrRemoves ==
    log.op = "erase" =>
        /\ Len(currentStrokes) <= Len(log.before)
        /\ \E K \in SUBSET (1..Len(log.before)) :
              /\ Cardinality(K) = Len(currentStrokes)
              /\ \A j \in 1..Len(currentStrokes) :
                    LET old == log.before[CHOOSE i \in K :
                                             Cardinality({m \in K : m <= i}) = j]
                        new == currentStrokes[j]
                    IN /\ new.id = old.id
                       /\ new.color = old.color
                       /\ new.strokeWidth = old.strokeWidth
                       /\ new.toolType = old.toolType
                       /\ IsSubsequence(new.points, old.points)
        /\ \A j, k \in 1..Len(currentStrokes) :
              currentStrokes[j].id = currentStrokes[k].id => j = k

\* an erase of a Drawing of two strokes that removes the first one whole and
\* truncates the second
C24_Witness ==
    /\ log.op = "erase"
    /\ Len(log.before) = 2
    /\ Len(currentStrokes) = 1
    /\ currentStrokes[1].id = log.before[2].id
    /\ Len(currentStrokes[1].points) < Len(log.before[2].points)

\* C25: an erase commit leaves every stroke that the eraser does not touch (no point
\* of it within the radius of any eraser point) in the Drawing with the same points,
\* a stroke of a single point included; and an erase of the empty Drawing gives the
\* empty Drawing.
C25_UntouchedStrokesKept ==
    log.op = "erase" =>
        /\ \A i \in 1..Len(log.before) :
              (\A j \in 1..Len(log.before[i].points) :
                   ~\E k \in 1..Len(log.path) :
                        4 * Dist2(log.before[i].points[j], log.path[k])
                          <= log.width * log.width * Scale * Scale)
              => \E m \in 1..Len(currentStrokes) : currentStrokes[m] = log.before[i]
        /\ log.before = <<>> => currentStrokes = <<>>

\* pressures handed to the tool resolver: below, at and above the ends of the range
PressureArguments ==
    {<<-1, 1>>, <<0, 1>>, <<1, 20>>, <<1, 10>>, <<1, 2>>, <<1, 1>>, <<3, 2>>, <<5, 1>>}

\* C26: the pressure of a segment of length d is clamp(1 / (d + 1), 0.1, 1.0): it is
\* within [0.1, 1.0], it is 1.0 at d = 0, it equals 1 / (d + 1) while that is at
\* least 0.1 and 0.1 beyond, and it does not increase with d; the tool resolver
\* leaves a pressure within [0.1, 1.0] as it is and brings any other one to the
\* nearer end of the range.
C26_PressureClamped ==
    /\ \A k \in 1..Len(strokes) : \A i \in 1..(Len(strokes[k].points) - 1) :
          LET start == strokes[k].points[i]
              end == strokes[k].points[i + 1]
              steps == Root(Dist2(start, end))
              pressure == SimulatedPressure(start, end)
          IN /\ 10 * pressure[1] >= pressure[2]
             /\ pressure[1] <= pressure[2]
             /\ pressure[2] > 0
             /\ steps = 0 => pressure[1] = pressure[2]
             /\ steps <= 9 * Scale => pressure[1] * (steps + Scale) = pressure[2] * Scale
             /\ steps > 9 * Scale => 10 * pressure[1] = pressure[2]
             /\ BasePressure(pressure) = pressure
             /\ \A j \in 1..(Len(strokes[k].points) - 1) :
                   LET other == SimulatedPressure(strokes[k].points[j],
                                                  strokes[k].points[j + 1])
                   IN Dist2(strokes[k].points[j], strokes[k].points[j + 1])
                        >= Dist2(start, end)
                      => other[1] * pressure[2] <= pressure[1] * other[2]
    /\ \A q \in PressureArguments :
          LET base == BasePressure(q)
          IN /\ 10 * base[1] >= base[2] /\ base[1] <= base[2]
             /\ (10 * q[1] >= q[2] /\ q[1] <= q[2]) => base = q
             /\ 10 * q[1] < q[2] => 10 * base[1] = base[2]
             /\ q[1] > q[2] => base[1] = base[2]

\* a stroke rendered with a segment of length 0 (pressure 1.0) and a segment of
\* length 10 (1/11, clamped to 0.1)
C26_Witness ==
    /\ Len(strokes) = 1
    /\ strokes[1].points = <<Origin, Origin, Pt(10 * Scale, 0)>>
    /\ selectedTool = "marker"
    /\ SimulatedPressure(Origin, Origin) = <<1, 1>>
    /\ SimulatedPressure(Origin, Pt(10 * Scale, 0)) = <<1, 10>>

\* C27: whenever the canvas' effect is not due, the canvas' strokes equal the modal's
\* currentStrokes: after a commit that passes the cap, after an erase, after Undo
\* and after Clear.
C27_CanvasAgreesWithModal ==
    (showDrawingModal /\ ~effectPending) => strokes = currentStrokes

\* the effect has run after a commit onto a Drawing of StrokeCap strokes: the canvas
\* has dropped the oldest stroke too
C27_Witness ==
    /\ ~effectPending
    /\ log.op = "draw"
    /\ Len(log.before) = StrokeCap
    /\ Len(strokes) = StrokeCap
    /\ strokes = currentStrokes
    /\ strokes[1].id # log.before[1].id

\* C28: pointer-up uses the whole gesture: the buffer it commits or erases with has
\* every point that pointer-down and the pointer-moves of the gesture retained, and
\* it discards only a gesture that retained none, whether or not a re-render came
\* between the events.
C28_WholeGestureCommitted ==
    /\ log.op \in {"draw", "erase"} => Len(log.path) = log.gest.kept
    /\ log.op = "discard" => log.gest.kept = 0

\* C29: every stroke of the Drawing with two or more points renders as at least one
\* primitive: it has a pair of consecutive points farther apart than its tool's
\* threshold.
C29_NoInvisibleInk ==
    \A k \in 1..Len(strokes) :
        Len(strokes[k].points) >= 2 => Len(RenderStrokes[k]) >= 1

\* C30: the note store loses no update: a call's write changes the stored list only
\* in the note that the call updates, so what another call has written to another
\* note in the meantime is still there.
C30_NoLostUpdate ==
    log.op = "write" =>
        \A n \in Notes \ {log.note} : notes[n] = log.sent[1][n]

====
